---------------------------- MODULE Spec2Model ----------------------------
(***************************************************************************)
(* Gaussian-splat rendering core of GaussianSplats3D:                      *)
(*   - SplatMaterial3D.buildVertexShaderProjection (the covariance         *)
(*     projector run once per splat), and                                  *)
(*   - SplatMaterial3D.buildFragmentShader (the per-pixel shading chain),  *)
(* together with the effect uniforms of SplatMaterial3D.build.             *)
(*                                                                         *)
(* GLSL floats are modelled as fixed-point integers: a float x is the      *)
(* integer x * Scale (one unit is 0.0001).  Products that do not fit TLC's *)
(* 32-bit integers are carried exactly as wide integers (W...), so that    *)
(* a * d - b * b and traceOver2 * traceOver2 - D are evaluated the way the *)
(* shader writes them.  sqrt, exp, sin and the fixed-point product round   *)
(* towards zero to one unit.  The matrices J and transformModelViewMatrix  *)
(* hold whole numbers and are kept unscaled.                               *)
(***************************************************************************)
EXTENDS Integers, Sequences, FiniteSets, TLC

\* Units per 1.0 of a GLSL float.
Scale == 10000

Abs(x) == IF x < 0 THEN -x ELSE x
Max(x, y) == IF x >= y THEN x ELSE y
Min(x, y) == IF x <= y THEN x ELSE y

---------------------------------------------------------------------------
(* Exact wide integers: little-endian limbs in base WBase; after WNorm     *)
(* every limb is in 0..WBase-1 except that a negative number ends with the *)
(* limb -1.                                                                *)

WBase == Scale

RECURSIVE WCarry(_, _)
WCarry(p, c) ==
    IF p = <<>>
    THEN IF c = 0 THEN <<>>
         ELSE IF c = -1 THEN <<-1>>
         ELSE <<c % WBase>> \o WCarry(<<>>, c \div WBase)
    ELSE LET v == Head(p) + c
         IN  <<v % WBase>> \o WCarry(Tail(p), v \div WBase)

RECURSIVE WTrim(_)
WTrim(p) ==
    IF p = <<>> THEN p
    ELSE IF p[Len(p)] = 0 THEN WTrim(SubSeq(p, 1, Len(p) - 1)) ELSE p

WNorm(p) == WTrim(WCarry(p, 0))

\* The wide integer of a 32-bit integer.
W(x) == WNorm(<<x>>)

WLimb(p, i) == IF i <= Len(p) THEN p[i] ELSE 0

WAdd(p, q) ==
    WNorm([i \in 1..Max(Len(p), Len(q)) |-> WLimb(p, i) + WLimb(q, i)])

WSub(p, q) ==
    WNorm([i \in 1..Max(Len(p), Len(q)) |-> WLimb(p, i) - WLimb(q, i)])

RECURSIVE WConv(_, _, _, _)
WConv(p, q, k, i) ==
    \* sum of p[i] * q[k + 1 - i] over the i that index both
    IF i > Len(p) \/ i > k THEN 0
    ELSE (IF k + 1 - i <= Len(q) THEN p[i] * q[k + 1 - i] ELSE 0)
         + WConv(p, q, k, i + 1)

WMul(p, q) ==
    IF p = <<>> \/ q = <<>> THEN <<>>
    ELSE WNorm([k \in 1..(Len(p) + Len(q) - 1) |-> WConv(p, q, k, 1)])

RECURSIVE WAllZero(_)
WAllZero(p) == IF p = <<>> THEN TRUE ELSE Head(p) = 0 /\ WAllZero(Tail(p))

WSign(p) ==
    IF p = <<>> THEN 0
    ELSE IF p[Len(p)] < 0 THEN -1
    ELSE IF WAllZero(p) THEN 0 ELSE 1

WLeq(p, q) == WSign(WSub(p, q)) <= 0
WLess(p, q) == WSign(WSub(p, q)) < 0
WNeg(p) == WSub(<<>>, p)
WAbs(p) == IF WSign(p) < 0 THEN WNeg(p) ELSE p
WProd(x, y) == WMul(W(x), W(y))

\* The value of a wide integer that fits 32 bits.
RECURSIVE WNarrow(_)
WNarrow(p) == IF p = <<>> THEN 0 ELSE Head(p) + WBase * WNarrow(Tail(p))

\* floor(sqrt(n)) for 0 <= n < 2^31, by bisection: lo * lo <= n < hi * hi.
RECURSIVE IBisect(_, _, _)
IBisect(lo, hi, n) ==
    IF hi - lo <= 1 THEN lo
    ELSE LET mid == lo + (hi - lo) \div 2
         IN  IF mid * mid <= n THEN IBisect(mid, hi, n) ELSE IBisect(lo, mid, n)

RECURSIVE WBisect(_, _, _)
WBisect(lo, hi, w) ==
    IF hi - lo <= 1 THEN lo
    ELSE LET mid == lo + (hi - lo) \div 2
         IN  IF WLeq(WProd(mid, mid), w) THEN WBisect(mid, hi, w)
             ELSE WBisect(lo, mid, w)

\* The largest limb l in lo..hi-1 with (r * WBase + l)^2 <= t * WBase^2 + u,
\* where r = floor(sqrt(t)), rest = t - r * r and 0 <= u < WBase^2.  Both
\* sides are compared as a whole part and a remainder modulo WBase.
RECURSIVE SqrtLimb(_, _, _, _, _)
SqrtLimb(r, rest, u, lo, hi) ==
    IF hi - lo <= 1 THEN lo
    ELSE LET mid == lo + (hi - lo) \div 2
             lhs == 2 * r * mid + (mid * mid) \div WBase
             rhs == rest * WBase + u \div WBase
             fits == lhs < rhs \/ (lhs = rhs /\ (mid * mid) % WBase <= u % WBase)
         IN  IF fits THEN SqrtLimb(r, rest, u, mid, hi)
             ELSE SqrtLimb(r, rest, u, lo, mid)

\* floor(sqrt(w)) for a wide w >= 0: the largest r with r * r <= w, found
\* limb by limb from the root of the leading limbs.
RECURSIVE WSqrt(_)
WSqrt(w) ==
    IF WSign(w) <= 0 THEN 0
    ELSE IF Len(w) <= 2 THEN IBisect(0, WBase, WNarrow(w))
    ELSE IF Len(w) <= 4
    THEN LET t == WNarrow(SubSeq(w, 3, Len(w)))
             r == IBisect(0, WBase, t)
         IN  r * WBase + SqrtLimb(r, t - r * r, WNarrow(SubSeq(w, 1, 2)), 0, WBase)
    ELSE LET r == WSqrt(SubSeq(w, 3, Len(w)))
         IN  WBisect(r * WBase, (r + 1) * WBase, w)

\* The fixed-point product x * y of two numbers, rounded towards zero.
FProduct(x, y) ==
    LET xh == Abs(x) \div Scale
        xl == Abs(x) % Scale
        yh == Abs(y) \div Scale
        yl == Abs(y) % Scale
        q == xh * yh * Scale + xh * yl + xl * yh + (xl * yl) \div Scale
    IN  IF (x < 0) = (y < 0) THEN q ELSE -q

\* The product of two float expressions: each operand is evaluated once.
FMul(x, y) == CHOOSE q \in {FProduct(a, b) : a \in {x}, b \in {y}} : TRUE

\* sqrt(x) of a float x >= 0.
FSqrt(x) == WSqrt(WProd(x, Scale))

---------------------------------------------------------------------------
(* GLSL mat3: three columns of three rows; the shader's m[c][r] is         *)
(* m[c + 1][r + 1] here.                                                   *)

mat3(c0r0, c0r1, c0r2, c1r0, c1r1, c1r2, c2r0, c2r1, c2r2) ==
    << <<c0r0, c0r1, c0r2>>, <<c1r0, c1r1, c1r2>>, <<c2r0, c2r1, c2r2>> >>

transpose(m) == [c \in 1..3 |-> [r \in 1..3 |-> m[r][c]]]

\* The GLSL product m * n.
MatMul(m, n) ==
    [c \in 1..3 |-> [r \in 1..3 |->
        m[1][r] * n[c][1] + m[2][r] * n[c][2] + m[3][r] * n[c][3]]]

---------------------------------------------------------------------------
(* State.                                                                  *)

VARIABLES
    frame,          \* what SplatMaterial3D.build bakes into the vertex shader,
                    \* and the uniforms of the vertex shader for one frame
    splats,         \* per splat: covariance3D, viewCenter, vColor.a
    proj,           \* per splat: what its projector invocation left behind
    uniforms,       \* material.uniforms: the effect flags and parameters
    frag,           \* one fragment: the varyings vPosition and vColor
    gl_FragColor,   \* what the fragment shader wrote for that fragment
    buttons,        \* InfoPanel: per effect button, whether it has class 'active'
    events,         \* per effect id, detail.active of the effectChanged events
    loops,          \* pending requestAnimationFrame callbacks per update loop
    calls,          \* number of handleEffectChange calls so far
    frames,         \* number of animation frames the browser has run
    pass,           \* the rendering pass in progress and what its pixels read
    spinner         \* the LoadingSpinner: tasks, taskIDGen, what it displays

panelVars == <<buttons, events, loops, calls, frames, pass>>

vars == <<frame, splats, proj, uniforms, frag, gl_FragColor, panelVars, spinner>>

\* Number of splats drawn in a frame.
NumSplats == 2

SplatIds == 1..NumSplats

---------------------------------------------------------------------------
(* The covariance projector: buildVertexShaderProjection.                  *)

\* The clamp 0.1 under the square root of the eigen-solve.
EigenClamp == 1000
\* The eigenvalue 0.2 that point-cloud mode forces.
PointCloudEigenValue == 2000
\* const float sqrt8 = sqrt(8.0)
sqrt8 == 28284

\* Construct the 3D covariance matrix.
Vrk(c) ==
    mat3(c.M11, c.M12, c.M13,
         c.M12, c.M22, c.M23,
         c.M13, c.M23, c.M33)

\* The Jacobian J of the projection at viewCenter (focal, orthoZoom and
\* viewCenter hold whole numbers that divide exactly).
Jacobian(f, viewCenter) ==
    IF f.orthographicMode = 1
    THEN transpose(mat3(f.orthoZoom, 0, 0,
                        0, f.orthoZoom, 0,
                        0, 0, 0))
    ELSE LET zz == viewCenter[3] * viewCenter[3]
         IN  mat3(f.focal[1] \div viewCenter[3], 0, -((f.focal[1] * viewCenter[1]) \div zz),
                  0, f.focal[2] \div viewCenter[3], -((f.focal[2] * viewCenter[2]) \div zz),
                  0, 0, 0)

\* A projection that multiplies by T on both sides: T * Vrk * T.
Cov2DmUntransposed(f, s) ==
    LET J == Jacobian(f, s.viewCenter)
        Wm == transpose(f.transformModelViewMatrix)
        T == MatMul(Wm, J)
    IN  MatMul(MatMul(T, Vrk(s.covariance3D)), T)

\* mat3 cov2Dm = transpose(T) * Vrk * T, with T = W * J.
Cov2Dm(f, s) ==
    LET J == Jacobian(f, s.viewCenter)
        Wm == transpose(f.transformModelViewMatrix)
        T == MatMul(Wm, J)
    IN  MatMul(MatMul(transpose(T), Vrk(s.covariance3D)), T)

\* cov2Dm[0][0] * cov2Dm[1][1] - cov2Dm[0][1] * cov2Dm[0][1], exactly.
Det2(a, b, d) == WSub(WProd(a, d), WProd(b, b))

\* sqrt(max(detOrig / detBlur, 0.0)) for detBlur # 0: the largest m with
\* m * m * |detBlur| <= |detOrig| * Scale * Scale when the quotient is positive.
RECURSIVE RatioBisect(_, _, _, _)
RatioBisect(lo, hi, num, den) ==
    IF hi - lo <= 1 THEN lo
    ELSE LET mid == lo + (hi - lo) \div 2
         IN  IF WLeq(WMul(WProd(mid, mid), den), num)
             THEN RatioBisect(mid, hi, num, den)
             ELSE RatioBisect(lo, mid, num, den)

SqrtRatio(detOrig, detBlur) ==
    IF WSign(detOrig) * WSign(detBlur) <= 0 THEN 0
    ELSE LET num == WMul(WAbs(detOrig), WProd(Scale, Scale))
             den == WAbs(detBlur)
         IN  IF WLess(WAbs(detOrig), den)
             THEN RatioBisect(0, Scale, num, den)
             ELSE RatioBisect(Scale, 1048576, num, den)

\* A compensation by the inverse quotient, sqrt(max(detBlur / detOrig, 0.0)).
CompensatedAlphaInverted(f, s, detOrig, detBlur) ==
    IF ~f.antialiased THEN {[v |-> s.alpha, finite |-> TRUE]}
    ELSE IF WSign(detBlur) = 0
         THEN {[v |-> 0, finite |-> TRUE], [v |-> 0, finite |-> FALSE]}
         ELSE {[v |-> FMul(s.alpha, SqrtRatio(detBlur, detOrig)), finite |-> TRUE]}

\* vColor.a after the antialiasing compensation.  A division by zero gives
\* an unspecified float: zero, or a value that is not finite and compares
\* false with everything.
CompensatedAlpha(f, s, detOrig, detBlur) ==
    IF ~f.antialiased THEN {[v |-> s.alpha, finite |-> TRUE]}
    ELSE IF WSign(detBlur) = 0
         THEN {[v |-> 0, finite |-> TRUE], [v |-> 0, finite |-> FALSE]}
         ELSE {[v |-> FMul(s.alpha, SqrtRatio(detOrig, detBlur)), finite |-> TRUE]}

\* if (vColor.a < minAlpha) return;   (only in the antialiased shader)
AlphaDiscard(f, alpha) == f.antialiased /\ alpha.finite /\ alpha.v < f.minAlpha

\* An eigen-solve with the two roots exchanged.
EigenSolveSwapped(a, b, d, pointCloudModeEnabled) ==
    LET D == Det2(a, b, d)
        trace == a + d
        traceOver2 == trace \div 2
        inner == WSub(WProd(traceOver2, traceOver2), D)
        clamp == WProd(EigenClamp, Scale)
        term2 == WSqrt(IF WLess(inner, clamp) THEN clamp ELSE inner)
    IN  IF pointCloudModeEnabled = 1
        THEN [eigenValue1 |-> PointCloudEigenValue, eigenValue2 |-> PointCloudEigenValue]
        ELSE [eigenValue1 |-> traceOver2 - term2, eigenValue2 |-> traceOver2 + term2]

\* An eigen-solve whose square root is clamped at zero instead of 0.1.
EigenSolveUnclamped(a, b, d, pointCloudModeEnabled) ==
    LET D == Det2(a, b, d)
        trace == a + d
        traceOver2 == trace \div 2
        inner == WSub(WProd(traceOver2, traceOver2), D)
        term2 == WSqrt(IF WSign(inner) < 0 THEN W(0) ELSE inner)
    IN  IF pointCloudModeEnabled = 1
        THEN [eigenValue1 |-> PointCloudEigenValue, eigenValue2 |-> PointCloudEigenValue]
        ELSE [eigenValue1 |-> traceOver2 + term2, eigenValue2 |-> traceOver2 - term2]

\* The eigenvalues of the symmetric matrix ((a, b), (b, d)) as the shader
\* solves for them, and the point-cloud override.
EigenSolve(a, b, d, pointCloudModeEnabled) ==
    LET D == Det2(a, b, d)
        trace == a + d
        traceOver2 == trace \div 2
        inner == WSub(WProd(traceOver2, traceOver2), D)
        clamp == WProd(EigenClamp, Scale)
        term2 == WSqrt(IF WLess(inner, clamp) THEN clamp ELSE inner)
    IN  IF pointCloudModeEnabled = 1
        THEN [eigenValue1 |-> PointCloudEigenValue, eigenValue2 |-> PointCloudEigenValue]
        ELSE [eigenValue1 |-> traceOver2 + term2, eigenValue2 |-> traceOver2 - term2]

\* A test that lets a zero eigenvalue through.
EigenDiscardStrict(eigenValue2) == eigenValue2 < 0

\* if (eigenValue2 <= 0.0) return;
EigenDiscard(eigenValue2) == eigenValue2 <= 0

\* normalize(v): v / length(v).  The components are first brought to about
\* 15 bits so that the squares fit.  normalize of the zero vector is
\* undefined: the build gives the zero vector or a vector of NaNs.
Normalize(v) ==
    LET m == Max(Abs(v[1]), Abs(v[2]))
        up == IF m < 15000 THEN 30000 \div m ELSE 1
        down == IF m > 30000 THEN m \div 30000 + 1 ELSE 1
        x == (Abs(v[1]) * up) \div down
        y == (Abs(v[2]) * up) \div down
        len == IBisect(0, 46341, x * x + y * y)
        sx == IF v[1] < 0 THEN -1 ELSE 1
        sy == IF v[2] < 0 THEN -1 ELSE 1
    IN  IF m = 0
        THEN {[v |-> <<0, 0>>, finite |-> TRUE], [v |-> <<0, 0>>, finite |-> FALSE]}
        ELSE {[v |-> <<sx * ((x * Scale) \div len), sy * ((y * Scale) \div len)>>,
               finite |-> TRUE]}

\* eigenVector * splatScale * min(sqrt8 * sqrt(eigenValue), maxScreenSpaceSplatSize.0)
BasisVector(f, eigenVector, eigenValue) ==
    LET extent == Min(FMul(sqrt8, FSqrt(eigenValue)), f.maxScreenSpaceSplatSize * Scale)
    IN  <<FMul(FMul(eigenVector[1], f.splatScale), extent),
          FMul(FMul(eigenVector[2], f.splatScale), extent)>>

\* vColor.a *= splatOpacityFromScene;   (only with enableOptionalEffects)
SceneAlpha(f, alpha) ==
    IF f.enableOptionalEffects
    THEN [alpha EXCEPT !.v = FMul(alpha.v, f.splatOpacityFromScene)]
    ELSE alpha

NoVec == <<0, 0>>

\* Every result the projector can leave for splat s in frame f: the stage at
\* which the invocation ended and the values computed up to there.
Projections(f, s) ==
    LET m == Cov2Dm(f, s)
        a0 == m[1][1]
        b0 == m[1][2]
        d0 == m[2][2]
        a == a0 + f.kernel2DSize
        d == d0 + f.kernel2DSize
        b == b0
        detOrig == Det2(a0, b0, d0)
        detBlur == Det2(a, b, d)
        e == EigenSolve(a, b, d, f.pointCloudModeEnabled)
        base == [stage |-> "quad", cov2D |-> <<a0, b0, d0>>, cov2Dv |-> <<a, b, d>>,
                 alpha |-> 0, alphaFinite |-> TRUE,
                 eigenValue1 |-> 0, eigenValue2 |-> 0,
                 basisVector1 |-> NoVec, basisVector2 |-> NoVec, basisFinite |-> TRUE]
    IN  UNION {
          IF AlphaDiscard(f, al)
          THEN {[base EXCEPT !.stage = "alphaDiscard",
                             !.alpha = al.v, !.alphaFinite = al.finite]}
          ELSE IF EigenDiscard(e.eigenValue2)
          THEN {[base EXCEPT !.stage = "eigenDiscard",
                             !.alpha = al.v, !.alphaFinite = al.finite,
                             !.eigenValue1 = e.eigenValue1,
                             !.eigenValue2 = e.eigenValue2]}
          ELSE {LET eigenVector1 == n.v
                    \* since the eigen vectors are orthogonal, the second is
                    \* derived from the first
                    eigenVector2 == <<eigenVector1[2], -eigenVector1[1]>>
                    out == SceneAlpha(f, al)
                IN  [base EXCEPT !.alpha = out.v, !.alphaFinite = out.finite,
                                 !.eigenValue1 = e.eigenValue1,
                                 !.eigenValue2 = e.eigenValue2,
                                 !.basisVector1 = BasisVector(f, eigenVector1, e.eigenValue1),
                                 !.basisVector2 = BasisVector(f, eigenVector2, e.eigenValue2),
                                 !.basisFinite = n.finite]
                : n \in Normalize(<<b, e.eigenValue1 - a>>)}
          : al \in CompensatedAlpha(f, s, detOrig, detBlur)}

---------------------------------------------------------------------------
(* The frames and splats the projector is run on.                          *)

\* Defaults of SplatMaterial3D.build.
DefaultKernel2DSize == 3000
DefaultMaxScreenSpaceSplatSize == 2048
DefaultSplatScale == 10000

Identity3 == mat3(1, 0, 0,  0, 1, 0,  0, 0, 1)
\* a quarter turn about the view axis
QuarterTurn == mat3(0, 1, 0,  -1, 0, 0,  0, 0, 1)
\* a rotation (3/5, 4/5) about the view axis times the uniform scale 5
ScaledTurn == mat3(3, 4, 0,  -4, 3, 0,  0, 0, 5)
\* a model stretched along one axis
Stretch == mat3(1, 0, 0,  0, 2, 0,  0, 0, 1)

ModelViews == {Identity3, QuarterTurn, ScaledTurn, Stretch}

\* orthographicMode, orthoZoom, focal
Cameras ==
    {[orthographicMode |-> 0, orthoZoom |-> 1, focal |-> <<1000, 1000>>],
     [orthographicMode |-> 0, orthoZoom |-> 1, focal |-> <<5, 5>>],
     [orthographicMode |-> 0, orthoZoom |-> 1, focal |-> <<10, 5>>],
     [orthographicMode |-> 1, orthoZoom |-> 1, focal |-> <<5, 5>>],
     [orthographicMode |-> 1, orthoZoom |-> 2, focal |-> <<5, 5>>]}

\* enableOptionalEffects, splatScale, maxScreenSpaceSplatSize
Sizes ==
    {[enableOptionalEffects |-> FALSE, splatScale |-> DefaultSplatScale,
      maxScreenSpaceSplatSize |-> DefaultMaxScreenSpaceSplatSize],
     [enableOptionalEffects |-> TRUE, splatScale |-> 2 * DefaultSplatScale,
      maxScreenSpaceSplatSize |-> 1]}

AllFrames ==
    {[antialiased |-> aa, enableOptionalEffects |-> sz.enableOptionalEffects,
      maxScreenSpaceSplatSize |-> sz.maxScreenSpaceSplatSize,
      kernel2DSize |-> k, splatScale |-> sz.splatScale,
      pointCloudModeEnabled |-> pc,
      orthographicMode |-> cam.orthographicMode, orthoZoom |-> cam.orthoZoom,
      focal |-> cam.focal, transformModelViewMatrix |-> mv,
      minAlpha |-> 39, splatOpacityFromScene |-> 5000] :
        aa \in BOOLEAN, sz \in Sizes,
        k \in {DefaultKernel2DSize, PointCloudEigenValue}, pc \in {0, 1},
        cam \in Cameras, mv \in ModelViews}

\* The long focal length is combined with the rigid model-views only, the
\* kernel 0.2 with point-cloud mode and the default sizes, the optional
\* effects with a square focal length, and the antialiased shader is run on
\* a part of the cameras and model-views.
Frames ==
    {f \in AllFrames :
        /\ f.focal[1] = 1000 => f.transformModelViewMatrix \in {Identity3, QuarterTurn}
        /\ f.kernel2DSize = PointCloudEigenValue =>
              f.pointCloudModeEnabled = 1 /\ ~f.enableOptionalEffects
        /\ f.enableOptionalEffects => f.focal = <<5, 5>>
        /\ f.antialiased =>
              /\ f.transformModelViewMatrix \in {Identity3, Stretch}
              /\ f.orthoZoom = 2 \/ (f.orthographicMode = 0 /\ f.focal[1] = f.focal[2])}

Cov(m11, m12, m13, m22, m23, m33) ==
    [M11 |-> m11, M12 |-> m12, M13 |-> m13, M22 |-> m22, M23 |-> m23, M33 |-> m33]

\* covariance3D: positive semi-definite ones first, then malformed ones
Covariances ==
    << Cov(10000, 0, 0, 10000, 0, 10000),        \* identity
       Cov(0, 0, 0, 0, 0, 0),                    \* zero
       Cov(62, 0, 0, 62, 0, 62),                 \* 0.0062 * identity
       Cov(20000, 0, 0, 5000, 0, 10000),         \* axis-aligned ellipsoid
       Cov(10000, 5000, 0, 10000, 0, 10000),     \* correlated in x, y
       Cov(10000, 10000, 0, 10000, 0, 0),        \* rank one
       Cov(10000, 0, 5000, 10000, 5000, 10000),  \* correlated with depth
       Cov(40000, 0, 0, 2500, 0, 10000),         \* elongated
       Cov(-1000, 0, 0, 50000, 0, 10000),        \* one negative variance
       Cov(-3000, 0, 0, 10000, 0, 10000),
       Cov(-1000, 0, 0, -1000, 0, -1000),        \* -0.1 * identity
       Cov(0, 10000, 0, 0, 0, 0) >>              \* indefinite

\* viewCenter and vColor.a
Placements ==
    << [viewCenter |-> <<0, 0, 5>>, alpha |-> 10000],
       [viewCenter |-> <<5, 0, 5>>, alpha |-> 30] >>

\* The j-th splat of the catalogue, j >= 0, for a frame (with the long focal
\* length: the first covariances, on the view axis).
CatalogueSize(f) == IF f.focal[1] = 1000 THEN 4 ELSE Len(Covariances) * 2

CatalogueSplat(f, j) ==
    LET n == Len(Covariances)
        k == j % CatalogueSize(f)
        at == IF f.focal[1] = 1000 THEN Placements[1] ELSE Placements[(k \div n) + 1]
    IN  [covariance3D |-> Covariances[(k % n) + 1],
         viewCenter |-> at.viewCenter, alpha |-> at.alpha]

Pending ==
    [stage |-> "pending", cov2D |-> <<0, 0, 0>>, cov2Dv |-> <<0, 0, 0>>,
     alpha |-> 0, alphaFinite |-> TRUE, eigenValue1 |-> 0, eigenValue2 |-> 0,
     basisVector1 |-> NoVec, basisVector2 |-> NoVec, basisFinite |-> TRUE]

InitProjector ==
    /\ frame \in Frames
    /\ \E k \in 0..(CatalogueSize(frame) - 1) :
         splats = [i \in SplatIds |-> CatalogueSplat(frame, k + 3 * (i - 1))]
    /\ proj = [i \in SplatIds |-> Pending]

\* One invocation of the vertex shader's projection for splat i.
Project(i) ==
    /\ proj[i].stage = "pending"
    /\ \E r \in Projections(frame, splats[i]) : proj' = [proj EXCEPT ![i] = r]
    /\ UNCHANGED <<frame, splats, uniforms, frag, gl_FragColor, panelVars, spinner>>

---------------------------------------------------------------------------
(* The fragment shader: buildFragmentShader.                               *)

\* sin(x) on 0 <= x <= pi / 2, by its series.
SinQuarter(x) ==
    LET x2 == FMul(x, x)
        t4 == Scale - x2 \div 72
        t3 == Scale - FMul(x2, t4) \div 42
        t2 == Scale - FMul(x2, t3) \div 20
        t1 == Scale - FMul(x2, t2) \div 6
    IN  FMul(x, t1)

\* The built-in sin(x): the period is 6.2832, the quarter 1.5708.
sin(x) ==
    LET r == x % 62832
    IN  IF r <= 15708 THEN SinQuarter(r)
        ELSE IF r <= 31416 THEN SinQuarter(31416 - r)
        ELSE IF r <= 47124 THEN -SinQuarter(r - 31416)
        ELSE -SinQuarter(62832 - r)

\* The built-in exp(y) for y <= 0: e^(-n) from a table, e^(-f) by its series.
exp(y) ==
    LET n == (-y) \div Scale
        f == (-y) % Scale
        whole == <<10000, 3679, 1353, 498, 183, 67, 25, 9, 3, 1>>
        t6 == Scale - f \div 6
        t5 == Scale - FMul(f, t6) \div 5
        t4 == Scale - FMul(f, t5) \div 4
        t3 == Scale - FMul(f, t4) \div 3
        t2 == Scale - FMul(f, t3) \div 2
        t1 == Scale - FMul(f, t2)
    IN  IF n < Len(whole) THEN FMul(whole[n + 1], t1) ELSE 0

\* The built-in mix(x, y, a) = x * (1 - a) + y * a on vec3.
mix(x, y, a) == [i \in 1..3 |-> FMul(x[i], Scale - a) + FMul(y[i], a)]

\* The literals of the shader.
MixHalf == 5000
HueTurn == 62832
HueGreen == 3330
HueBlue == 6660
GlowGain == 15000
DiscardA == 80000
frequency == 15

\* vec3 applyRainbowEffect(vec3 color, float time)
applyRainbowEffect(color, time) ==
    LET hue == time
        rainbow == << FMul(sin(FMul(hue, HueTurn)), MixHalf) + MixHalf,
                      FMul(sin(FMul(hue + HueGreen, HueTurn)), MixHalf) + MixHalf,
                      FMul(sin(FMul(hue + HueBlue, HueTurn)), MixHalf) + MixHalf >>
    IN  mix(color, rainbow, MixHalf)

\* float applyPulseEffect(float time)
applyPulseEffect(time) == FMul(sin(time), MixHalf) + MixHalf

\* vec3 applyGlowEffect(vec3 color)
applyGlowEffect(color) == [i \in 1..3 |-> FMul(color[i], GlowGain)]

\* vec3 applyInvertEffect(vec3 color)
applyInvertEffect(color) == [i \in 1..3 |-> Scale - color[i]]

\* vec2 applyPositionEffect(vec2 position, float time), reading positionOffset
applyPositionEffect(u, position, time) ==
    LET wave == IF (time * frequency) % Scale < MixHalf THEN 1 ELSE -1
    IN  <<position[1] + u.positionOffset[1] * wave,
          position[2] + u.positionOffset[2] * wave>>

\* A main() that never applies the position effect.
FinalPositionUnperturbed(u, fr) == fr.vPosition

\* finalPosition of main()
FinalPosition(u, fr) ==
    IF u.positionEffect > 0
    THEN applyPositionEffect(u, fr.vPosition, u.positionTime)
    ELSE fr.vPosition

\* dot(finalPosition, finalPosition), in units of 1 / Scale^2 so that the
\* comparison with 8.0 is exact
DotSelf(p) == p[1] * p[1] + p[2] * p[2]

\* A discard test that also rejects the boundary, A >= 8.0.
FragmentDiscardInclusive(A2) == A2 >= DiscardA * Scale

\* if (A > 8.0) discard;
FragmentDiscard(A2) == A2 > DiscardA * Scale

\* if (rainbowEffect > 0) finalColor = applyRainbowEffect(finalColor, time);
RainbowStep(u, c) ==
    IF u.rainbowEffect > 0 THEN applyRainbowEffect(c, u.time) ELSE c

\* if (pulseEffect > 0) finalColor = mix(finalColor, finalColor * pulse, 0.5);
PulseWith(c, pulse) == mix(c, [i \in 1..3 |-> FMul(c[i], pulse)], MixHalf)

PulseStep(u, c) ==
    IF u.pulseEffect > 0 THEN PulseWith(c, applyPulseEffect(u.pulseTime)) ELSE c

\* if (glowEffect > 0) finalColor = applyGlowEffect(finalColor);
GlowStep(u, c) == IF u.glowEffect > 0 THEN applyGlowEffect(c) ELSE c

\* if (invertEffect > 0) finalColor = applyInvertEffect(finalColor);
InvertStep(u, c) == IF u.invertEffect > 0 THEN applyInvertEffect(c) ELSE c

\* A colour chain that inverts before it glows.
FinalColorInvertFirst(u, color) ==
    GlowStep(u, InvertStep(u, PulseStep(u, RainbowStep(u, color))))

\* The colour chain of main(): the enabled effects, one after the other.
FinalColor(u, color) ==
    InvertStep(u, GlowStep(u, PulseStep(u, RainbowStep(u, color))))

NoColor == [state |-> "none", rgb |-> <<0, 0, 0>>, a |-> 0]

\* A main() whose opacity is scaled by the pulse when the pulse is enabled.
FragmentMainPulsedAlpha(u, fr) ==
    LET A2 == DotSelf(FinalPosition(u, fr))
        opacity == FMul(exp(-FMul(MixHalf, A2 \div Scale)), fr.vColor.a)
    IN  IF FragmentDiscard(A2) THEN [NoColor EXCEPT !.state = "discard"]
        ELSE [state |-> "color", rgb |-> FinalColor(u, fr.vColor.rgb),
              a |-> IF u.pulseEffect > 0
                    THEN FMul(opacity, applyPulseEffect(u.pulseTime))
                    ELSE opacity]

\* void main(): what the fragment shader leaves in gl_FragColor.
FragmentMain(u, fr) ==
    LET finalPosition == FinalPosition(u, fr)
        A2 == DotSelf(finalPosition)
        A == A2 \div Scale
        color == fr.vColor.rgb
        opacity == FMul(exp(-FMul(MixHalf, A)), fr.vColor.a)
    IN  IF FragmentDiscard(A2) THEN [NoColor EXCEPT !.state = "discard"]
        ELSE [state |-> "color", rgb |-> FinalColor(u, color), a |-> opacity]

\* The effect uniforms SplatMaterial3D.build puts into the material.
\* Effect uniforms of a material that starts with the glow effect on.
BuildUniformsGlowing ==
    [rainbowEffect |-> 0, time |-> 0, pulseEffect |-> 0, pulseTime |-> 0,
     glowEffect |-> 1, invertEffect |-> 0, positionEffect |-> 0,
     positionOffset |-> <<0, 0, 0>>, positionTime |-> 0]

\* The effect uniforms of the material SplatMaterial3D.build returns.
BuildUniforms ==
    [rainbowEffect |-> 0, time |-> 0, pulseEffect |-> 0, pulseTime |-> 0,
     glowEffect |-> 0, invertEffect |-> 0, positionEffect |-> 0,
     positionOffset |-> <<0, 0, 0>>, positionTime |-> 0]

---------------------------------------------------------------------------
(* The effect controller: handleEffectChange and the per-effect methods it  *)
(* dispatches to, acting on material.uniforms, and the update loops they    *)
(* start with requestAnimationFrame.  A material is the pair of the         *)
(* uniforms and the number of pending callbacks of each update loop.        *)

\* The ids of the effect buttons of the InfoPanel.
Effects == {"rainbow", "pulse", "glow", "invert", "position"}

\* time.value += 0.01 and pulseTime.value += 0.05
TimeIncrement == 100
PulseIncrement == 500

\* One run of the closure updateTime with its flag test removed.
updateTimeUnguarded(u) == [u EXCEPT !.time = @ + TimeIncrement]

\* One run of the closure updateTime: it advances time while the effect is on.
updateTime(u) ==
    IF u.rainbowEffect = 1 THEN [u EXCEPT !.time = @ + TimeIncrement] ELSE u

\* One run of the closure updatePulse.
updatePulse(u) ==
    IF u.pulseEffect = 1 THEN [u EXCEPT !.pulseTime = @ + PulseIncrement] ELSE u

\* The rainbow method that keeps the phase when it enables the effect.
applyRainbowEffectToResuming(m, active) ==
    IF active
    THEN [uniforms |-> updateTime([m.uniforms EXCEPT !.rainbowEffect = 1]),
          loops |-> [m.loops EXCEPT !.rainbow = @ + 1]]
    ELSE [m EXCEPT !.uniforms.rainbowEffect = 0]

\* The method applyRainbowEffect(active): enabling sets the flag, resets time
\* and runs updateTime once, which registers itself for the next frame.
applyRainbowEffectTo(m, active) ==
    IF active
    THEN [uniforms |-> updateTime([m.uniforms EXCEPT !.rainbowEffect = 1, !.time = 0]),
          loops |-> [m.loops EXCEPT !.rainbow = @ + 1]]
    ELSE [m EXCEPT !.uniforms.rainbowEffect = 0]

\* The method applyPulseEffect(active).
applyPulseEffectTo(m, active) ==
    IF active
    THEN [uniforms |-> updatePulse([m.uniforms EXCEPT !.pulseEffect = 1, !.pulseTime = 0]),
          loops |-> [m.loops EXCEPT !.pulse = @ + 1]]
    ELSE [m EXCEPT !.uniforms.pulseEffect = 0]

\* The method applyGlowEffect(active).
applyGlowEffectTo(m, active) ==
    [m EXCEPT !.uniforms.glowEffect = IF active THEN 1 ELSE 0]

\* The method applyInvertEffect(active).
applyInvertEffectTo(m, active) ==
    [m EXCEPT !.uniforms.invertEffect = IF active THEN 1 ELSE 0]

\* handleEffectChange(effectName, active): a switch with four cases.
handleEffectChange(m, effectName, active) ==
    CASE effectName = "rainbow" -> applyRainbowEffectTo(m, active)
      [] effectName = "pulse" -> applyPulseEffectTo(m, active)
      [] effectName = "glow" -> applyGlowEffectTo(m, active)
      [] effectName = "invert" -> applyInvertEffectTo(m, active)
      [] OTHER -> m

\* The callbacks of one loop that a frame runs, one after the other.
RECURSIVE runUpdateTime(_, _)
runUpdateTime(u, n) == IF n = 0 THEN u ELSE runUpdateTime(updateTime(u), n - 1)

RECURSIVE runUpdatePulse(_, _)
runUpdatePulse(u, n) == IF n = 0 THEN u ELSE runUpdatePulse(updatePulse(u), n - 1)

\* A callback registers itself again exactly when it found its flag set.
Rescheduled(flag, n) == IF flag = 1 THEN n ELSE 0

\* The enable flag of an effect id in the uniforms.
EffectFlag(u, e) ==
    CASE e = "rainbow" -> u.rainbowEffect
      [] e = "pulse" -> u.pulseEffect
      [] e = "glow" -> u.glowEffect
      [] e = "invert" -> u.invertEffect
      [] e = "position" -> u.positionEffect

\* Bounds on the runs explored: calls of handleEffectChange, animation
\* frames, and pixels shaded in one rendering pass.
MaxCalls == 3
MaxFrames == 2
PixelsPerPass == 2

NoPass == [phase |-> "idle", snapshot |-> BuildUniforms, shaded |-> 0, used |-> {}]

\* A new InfoPanel, no handler called, no frame run, no pass begun.
InitPanel ==
    /\ buttons = [e \in Effects |-> FALSE]
    /\ events = [e \in Effects |-> <<>>]
    /\ loops = [rainbow |-> 0, pulse |-> 0]
    /\ calls = 0
    /\ frames = 0
    /\ pass = NoPass

Material == [uniforms |-> uniforms, loops |-> loops]

\* A call handleEffectChange(effectName, active) on the viewer.
Handle(effectName, active) ==
    /\ calls < MaxCalls
    /\ calls' = calls + 1
    /\ uniforms' = handleEffectChange(Material, effectName, active).uniforms
    /\ loops' = handleEffectChange(Material, effectName, active).loops

\* The click listener of an effect button: toggle the class, dispatch
\* effectChanged with active = !isActive; dispatchEvent runs the listener
\* that hands detail.effect and detail.active to handleEffectChange.
Click(e) ==
    /\ buttons' = [buttons EXCEPT ![e] = ~@]
    /\ events' = [events EXCEPT ![e] = Append(@, ~buttons[e])]
    /\ Handle(e, ~buttons[e])
    /\ UNCHANGED <<frame, splats, proj, frag, gl_FragColor, frames, pass, spinner>>

\* A direct call of handleEffectChange, with either value of active.
Call(e, active) ==
    /\ Handle(e, active)
    /\ UNCHANGED <<frame, splats, proj, frag, gl_FragColor, buttons, events,
                   frames, pass, spinner>>

\* One animation frame: the browser runs every callback registered before
\* the frame; what they register runs in the next frame.
AnimationFrame ==
    /\ frames < MaxFrames
    /\ frames' = frames + 1
    /\ uniforms' = runUpdatePulse(runUpdateTime(uniforms, loops.rainbow), loops.pulse)
    /\ loops' = [rainbow |-> Rescheduled(uniforms.rainbowEffect, loops.rainbow),
                 pulse |-> Rescheduled(uniforms.pulseEffect, loops.pulse)]
    /\ UNCHANGED <<frame, splats, proj, frag, gl_FragColor, buttons, events,
                   calls, pass, spinner>>

\* The uniforms a live read of the material gives to a pixel of the pass.
PassUniformsLive == uniforms

\* The uniforms the pixels of the pass in progress are shaded with.
PassUniforms == pass.snapshot

\* A rendering pass begins: it takes the effect state of the material.
BeginPass ==
    /\ pass.phase = "idle"
    /\ pass' = [phase |-> "drawing", snapshot |-> uniforms, shaded |-> 0, used |-> {}]
    /\ UNCHANGED <<frame, splats, proj, uniforms, frag, gl_FragColor, buttons,
                   events, loops, calls, frames, spinner>>

\* The pass shades one more pixel.
ShadePixel ==
    /\ pass.phase = "drawing"
    /\ pass.shaded < PixelsPerPass
    /\ gl_FragColor' = FragmentMain(PassUniforms, frag)
    /\ pass' = [pass EXCEPT !.shaded = @ + 1, !.used = @ \cup {PassUniforms}]
    /\ UNCHANGED <<frame, splats, proj, uniforms, frag, buttons, events, loops,
                   calls, frames, spinner>>

\* The pass has shaded its pixels and ends.
EndPass ==
    /\ pass.phase = "drawing"
    /\ pass.shaded = PixelsPerPass
    /\ pass' = NoPass
    /\ UNCHANGED <<frame, splats, proj, uniforms, frag, gl_FragColor, buttons,
                   events, loops, calls, frames, spinner>>

---------------------------------------------------------------------------
(* The LoadingSpinner: its task list and what it displays.                 *)

\* Bound on the number of calls made on one spinner.
MaxSpinnerOps == 4

Messages == {"Loading...", "Downloading", "Processing"}

\* Ids a caller may pass: the ids addTask can have issued, and one it cannot.
TaskIds == -1..MaxSpinnerOps

\* The spinner after its constructor; visible is not assigned there.
NewSpinner ==
    [taskIDGen |-> 0, tasks |-> <<>>, display |-> "none", visible |-> "undefined",
     messageContainerPrimary |-> "Loading...", messageContainerMin |-> "Loading...",
     returned |-> <<>>, ops |-> 0]

InitSpinner == spinner = NewSpinner

show(sp) == [sp EXCEPT !.display = "block", !.visible = TRUE]

hide(sp) == [sp EXCEPT !.display = "none", !.visible = FALSE]

setMessage(sp, msg) ==
    [sp EXCEPT !.messageContainerPrimary = msg, !.messageContainerMin = msg]

\* update() that displays the message of the first task of the list.
updateFirst(sp) ==
    IF Len(sp.tasks) > 0
    THEN setMessage(show(sp), sp.tasks[1].message)
    ELSE hide(sp)

update(sp) ==
    IF Len(sp.tasks) > 0
    THEN setMessage(show(sp), sp.tasks[Len(sp.tasks)].message)
    ELSE hide(sp)

\* Index of the first task with the id, 0 when there is none.
RECURSIVE IndexOfTask(_, _, _)
IndexOfTask(tasks, id, index) ==
    IF index > Len(tasks) THEN 0
    ELSE IF tasks[index].id = id THEN index
    ELSE IndexOfTask(tasks, id, index + 1)

\* tasks.splice(index, 1), with index counted from 1
Splice(tasks, index) ==
    [k \in 1..(Len(tasks) - 1) |-> IF k < index THEN tasks[k] ELSE tasks[k + 1]]

\* addTask that numbers the new task by its place in the list.
addTaskByPlace(sp, message) ==
    update([sp EXCEPT !.tasks = Append(@, [message |-> message, id |-> Len(sp.tasks)]),
                      !.taskIDGen = @ + 1,
                      !.returned = Append(@, Len(sp.tasks))])

\* addTask(message); returned collects the ids the calls have returned.
addTask(sp, message) ==
    update([sp EXCEPT !.tasks = Append(@, [message |-> message, id |-> sp.taskIDGen]),
                      !.taskIDGen = @ + 1,
                      !.returned = Append(@, sp.taskIDGen)])

removeTask(sp, id) ==
    IF IndexOfTask(sp.tasks, id, 1) = 0
    THEN update(sp)
    ELSE update([sp EXCEPT !.tasks = Splice(@, IndexOfTask(sp.tasks, id, 1))])

removeAllTasks(sp) == update([sp EXCEPT !.tasks = <<>>])

setMessageForTask(sp, id, message) ==
    IF IndexOfTask(sp.tasks, id, 1) = 0
    THEN update(sp)
    ELSE update([sp EXCEPT !.tasks[IndexOfTask(sp.tasks, id, 1)].message = message])

\* The four public methods, called on the spinner.
AddTask(message) ==
    /\ spinner.ops < MaxSpinnerOps
    /\ spinner' = [addTask(spinner, message) EXCEPT !.ops = @ + 1]
    /\ UNCHANGED <<frame, splats, proj, uniforms, frag, gl_FragColor, panelVars>>

RemoveTask(id) ==
    /\ spinner.ops < MaxSpinnerOps
    /\ spinner' = [removeTask(spinner, id) EXCEPT !.ops = @ + 1]
    /\ UNCHANGED <<frame, splats, proj, uniforms, frag, gl_FragColor, panelVars>>

RemoveAllTasks ==
    /\ spinner.ops < MaxSpinnerOps
    /\ spinner' = [removeAllTasks(spinner) EXCEPT !.ops = @ + 1]
    /\ UNCHANGED <<frame, splats, proj, uniforms, frag, gl_FragColor, panelVars>>

SetMessageForTask(id, message) ==
    /\ spinner.ops < MaxSpinnerOps
    /\ spinner' = [setMessageForTask(spinner, id, message) EXCEPT !.ops = @ + 1]
    /\ UNCHANGED <<frame, splats, proj, uniforms, frag, gl_FragColor, panelVars>>

---------------------------------------------------------------------------
(* The effect states and fragments the shader is run on.                   *)

EffectStates ==
    [rainbowEffect : {0, 1}, time : {0, 2500},
     pulseEffect : {0, 1}, pulseTime : {0, 10000},
     glowEffect : {0, 1}, invertEffect : {0, 1}, positionEffect : {0, 1},
     positionOffset : {<<5000, 0, 0>>, <<0, -1, 0>>},
     positionTime : {0, 500}]

\* vPosition: the centre, inside, on the circle A = 8.0, to either side of
\* it, nearest to A = 7.999, and outside
Positions ==
    {<<0, 0>>, <<10000, 0>>, <<-15000, 20000>>, <<20000, 20000>>,
     <<20000, 19999>>, <<20000, 20001>>, <<2394, 28181>>, <<28284, 124>>,
     <<25000, 0>>, <<30000, 0>>}

Colors ==
    {[rgb |-> <<10000, 0, 0>>, a |-> 10000],
     [rgb |-> <<2000, 4000, 6000>>, a |-> 5000]}

Fragments == [vPosition : Positions, vColor : Colors]

\* The fragments of the passes of the viewer: a centre and an off-centre one.
PassFragments ==
    {[vPosition |-> <<0, 0>>, vColor |-> [rgb |-> <<10000, 0, 0>>, a |-> 10000]],
     [vPosition |-> <<10000, 0>>, vColor |-> [rgb |-> <<2000, 4000, 6000>>, a |-> 5000]]}

DefaultFrame ==
    CHOOSE f \in Frames :
        /\ ~f.antialiased /\ ~f.enableOptionalEffects /\ f.pointCloudModeEnabled = 0
        /\ f.kernel2DSize = DefaultKernel2DSize /\ f.focal = <<1000, 1000>>
        /\ f.transformModelViewMatrix = Identity3

InitFragment ==
    /\ uniforms \in EffectStates
    /\ frag \in Fragments
    /\ gl_FragColor = NoColor
    /\ frame = DefaultFrame
    /\ splats = [i \in SplatIds |-> CatalogueSplat(frame, 0)]
    /\ proj = [i \in SplatIds |-> Pending]
    /\ InitPanel
    /\ InitSpinner

\* One invocation of the fragment shader.
Shade ==
    /\ gl_FragColor.state = "none"
    /\ gl_FragColor' = FragmentMain(uniforms, frag)
    /\ UNCHANGED <<frame, splats, proj, uniforms, frag, panelVars, spinner>>

NextFragment == Shade

SpecFragment == InitFragment /\ [][NextFragment]_vars

InitProjection ==
    /\ InitProjector
    /\ uniforms = BuildUniforms
    /\ frag = [vPosition |-> <<0, 0>>, vColor |-> [rgb |-> <<10000, 0, 0>>, a |-> 10000]]
    /\ gl_FragColor = NoColor
    /\ InitPanel
    /\ InitSpinner

NextProjection == \E i \in SplatIds : Project(i)

SpecProjection == InitProjection /\ [][NextProjection]_vars

\* The viewer with its InfoPanel: nothing projected, one fragment to shade.
InitViewer ==
    /\ uniforms = BuildUniforms
    /\ frag \in PassFragments
    /\ gl_FragColor = NoColor
    /\ frame = DefaultFrame
    /\ splats = [i \in SplatIds |-> CatalogueSplat(frame, 0)]
    /\ proj = [i \in SplatIds |-> Pending]
    /\ InitPanel
    /\ InitSpinner

\* Clicks on the effect buttons, animation frames and rendering passes.
Next ==
    \/ \E e \in Effects : Click(e)
    \/ AnimationFrame
    \/ BeginPass
    \/ ShadePixel
    \/ EndPass

Spec == InitViewer /\ [][Next]_vars

\* Calls of handleEffectChange with any arguments, and animation frames.
NextController ==
    \/ \E e \in Effects, active \in BOOLEAN : Call(e, active)
    \/ AnimationFrame

SpecController == InitViewer /\ [][NextController]_vars

\* Calls on one LoadingSpinner.
NextSpinner ==
    \/ \E message \in Messages : AddTask(message)
    \/ \E id \in TaskIds : RemoveTask(id)
    \/ RemoveAllTasks
    \/ \E id \in TaskIds, message \in Messages : SetMessageForTask(id, message)

SpecSpinner == InitViewer /\ [][NextSpinner]_vars

---------------------------------------------------------------------------
(* Properties of the fragment shader (SpecFragment).                       *)

Shaded == gl_FragColor.state # "none"
Red == <<10000, 0, 0>>

\* One colour effect applied to a colour when its flag is set.
ApplyEffect(name, u, c) ==
    CASE name = "rainbow" ->
           IF u.rainbowEffect > 0 THEN applyRainbowEffect(c, u.time) ELSE c
      [] name = "pulse" ->
           IF u.pulseEffect > 0
           THEN mix(c, [i \in 1..3 |-> FMul(c[i], applyPulseEffect(u.pulseTime))], MixHalf)
           ELSE c
      [] name = "glow" -> IF u.glowEffect > 0 THEN applyGlowEffect(c) ELSE c
      [] name = "invert" -> IF u.invertEffect > 0 THEN applyInvertEffect(c) ELSE c

RECURSIVE Chain(_, _, _)
Chain(order, u, c) ==
    IF order = <<>> THEN c ELSE Chain(Tail(order), u, ApplyEffect(Head(order), u, c))

EffectOrder == <<"rainbow", "pulse", "glow", "invert">>

OnlyGlowAndInvert ==
    /\ uniforms.glowEffect = 1 /\ uniforms.invertEffect = 1
    /\ uniforms.rainbowEffect = 0 /\ uniforms.pulseEffect = 0

DistSq ==
    LET p == FinalPosition(uniforms, frag) IN p[1] * p[1] + p[2] * p[2]

\* C2 (as amended): a pixel is discarded exactly when its squared local
\* distance is greater than 8.0; at exactly 8.0 it is not discarded, and
\* like a pixel at 7.999 it emits a colour and an alpha.
C2_DiscardBoundary ==
    Shaded =>
        /\ gl_FragColor.state = "discard" <=> DistSq > 800000000
        /\ DistSq = 800000000 => gl_FragColor.state = "color"
        /\ (DistSq > 799890000 /\ DistSq < 799910000) => gl_FragColor.state = "color"

C2_Witness ==
    /\ gl_FragColor.state = "color" /\ DistSq = 800000000
    /\ uniforms.positionEffect = 0 /\ frag.vPosition = <<20000, 20000>>
    /\ gl_FragColor.a > 0

\* C2 as claimed: at exactly 8.0 the pixel is discarded, at 7.999 it is not.
C2_Original ==
    Shaded =>
        /\ DistSq = 800000000 => gl_FragColor.state = "discard"
        /\ (DistSq > 799890000 /\ DistSq < 799910000) => gl_FragColor.state = "color"

---------------------------------------------------------------------------
(* Properties of the covariance projector (SpecProjection).                *)

Projected(i) == proj[i].stage # "pending"
\* the invocation got as far as the eigen-solve
Solved(i) == proj[i].stage \in {"eigenDiscard", "quad"}

\* ((c[1], c[2]), (c[2], c[3])) is positive semi-definite
PSD2(c) == c[1] >= 0 /\ c[3] >= 0 /\ WSign(Det2(c[1], c[2], c[3])) >= 0

\* the symmetric 3x3 matrix c is positive semi-definite: all principal
\* minors are non-negative
PSD3(c) ==
    LET m1 == WSub(WProd(c.M22, c.M33), WProd(c.M23, c.M23))
        m2 == WSub(WProd(c.M12, c.M33), WProd(c.M23, c.M13))
        m3 == WSub(WProd(c.M12, c.M23), WProd(c.M22, c.M13))
        det == WAdd(WSub(WMul(W(c.M11), m1), WMul(W(c.M12), m2)), WMul(W(c.M13), m3))
    IN  /\ c.M11 >= 0 /\ c.M22 >= 0 /\ c.M33 >= 0
        /\ WSign(m1) >= 0
        /\ WSign(WSub(WProd(c.M11, c.M33), WProd(c.M13, c.M13))) >= 0
        /\ WSign(WSub(WProd(c.M11, c.M22), WProd(c.M12, c.M12))) >= 0
        /\ WSign(det) >= 0

Isotropic3(c) ==
    /\ c.M11 = c.M22 /\ c.M22 = c.M33
    /\ c.M12 = 0 /\ c.M13 = 0 /\ c.M23 = 0

WDot(u, v) == WAdd(WProd(u[1], v[1]), WProd(u[2], v[2]))

PlainMode == ~frame.antialiased /\ frame.pointCloudModeEnabled = 0

\* C3 as claimed: with antialiasing and point-cloud mode off and a positive
\* kernel2DSize, a splat whose projected covariance is positive
\* semi-definite before the dilation gets kernel2DSize added to both
\* diagonal entries and is never discarded by the eigenvalue test.
C3_Original ==
    \A i \in SplatIds :
        (Projected(i) /\ PlainMode /\ frame.kernel2DSize > 0 /\ PSD2(proj[i].cov2D)) =>
            /\ proj[i].cov2Dv = <<proj[i].cov2D[1] + frame.kernel2DSize,
                                  proj[i].cov2D[2],
                                  proj[i].cov2D[3] + frame.kernel2DSize>>
            /\ proj[i].eigenValue2 > 0
            /\ proj[i].stage = "quad"

\* covariance3D = identity at viewCenter (0, 0, 5), focal (1000, 1000),
\* identity model-view, kernel2DSize 0.3, maxScreenSpaceSplatSize 2048,
\* point-cloud mode off
IsotropicScenario(i) ==
    /\ splats[i].covariance3D = Cov(Scale, 0, 0, Scale, 0, Scale)
    /\ splats[i].viewCenter = <<0, 0, 5>>
    /\ frame.orthographicMode = 0 /\ frame.focal = <<1000, 1000>>
    /\ frame.transformModelViewMatrix = Identity3
    /\ frame.kernel2DSize = DefaultKernel2DSize
    /\ frame.maxScreenSpaceSplatSize = DefaultMaxScreenSpaceSplatSize
    /\ frame.pointCloudModeEnabled = 0

\* C4 as claimed: in the isotropic scenario the 2D covariance has equal
\* diagonal entries and a zero off-diagonal entry, the two eigenvalues are
\* equal, and the basis vectors are perpendicular and of equal magnitude.
C4_Original ==
    \A i \in SplatIds :
        (Projected(i) /\ IsotropicScenario(i)) =>
            /\ proj[i].cov2D[1] = proj[i].cov2D[3] /\ proj[i].cov2D[2] = 0
            /\ proj[i].cov2Dv[1] = proj[i].cov2Dv[3] /\ proj[i].cov2Dv[2] = 0
            /\ proj[i].stage = "quad"
            /\ proj[i].eigenValue1 = proj[i].eigenValue2
            /\ WSign(WDot(proj[i].basisVector1, proj[i].basisVector2)) = 0
            /\ WDot(proj[i].basisVector1, proj[i].basisVector1)
                 = WDot(proj[i].basisVector2, proj[i].basisVector2)

\* traceOver2 <= 0, or the dilated determinant is <= 0, or traceOver2 squared
\* is at most 0.1: the dilated matrix is not positive definite or its mean
\* variance is at most sqrt(0.1)
BelowFootprint(c) ==
    LET traceOver2 == (c[1] + c[3]) \div 2
    IN  \/ traceOver2 <= 0
        \/ WSign(Det2(c[1], c[2], c[3])) <= 0
        \/ WLeq(WProd(traceOver2, traceOver2), WProd(1000, Scale))

C5_Rule ==
    \A i \in SplatIds :
        Solved(i) =>
            /\ frame.pointCloudModeEnabled = 0 =>
                 (proj[i].stage = "eigenDiscard" <=> BelowFootprint(proj[i].cov2Dv))
            /\ frame.pointCloudModeEnabled = 1 => proj[i].stage = "quad"

C5_Local ==
    \A i \in SplatIds :
        proj'[i] # proj[i] => \A j \in SplatIds \ {i} : proj'[j] = proj[j]

\* C5 (as amended): with point-cloud mode off, a splat that reaches the
\* eigen-solve is discarded exactly when its dilated 2D covariance is not
\* positive definite or has a mean variance of at most sqrt(0.1); a
\* covariance that is not positive semi-definite is rendered whenever the
\* dilated matrix passes that test, and in point-cloud mode no splat is
\* discarded by the eigenvalue test.  The result of one splat's invocation
\* changes no other splat's result.
C5_DiscardRule == []C5_Rule /\ [][C5_Local]_vars

C5_Witness ==
    \E i, j \in SplatIds :
        /\ i # j /\ frame.pointCloudModeEnabled = 0
        /\ ~PSD2(proj[i].cov2D) /\ proj[i].stage = "quad"
        /\ proj[i].eigenValue2 > 0
        /\ ~PSD2(proj[j].cov2D) /\ proj[j].stage = "eigenDiscard"

\* C5 as claimed: a splat whose covariance is not positive semi-definite is
\* always discarded, never rendered.
C5_Original ==
    \A i \in SplatIds :
        (Projected(i) /\ ~PSD2(proj[i].cov2D)) => proj[i].stage # "quad"

\* C6: after the eigen-solve eigenValue1 >= eigenValue2, for every
\* symmetric input, with or without antialiasing, in and out of point-cloud
\* mode (where the two are equal).
C6_EigenOrder ==
    \A i \in SplatIds :
        Solved(i) =>
            /\ proj[i].eigenValue1 >= proj[i].eigenValue2
            /\ frame.pointCloudModeEnabled = 1 =>
                 proj[i].eigenValue1 = proj[i].eigenValue2

C6_Witness ==
    \E i \in SplatIds :
        /\ proj[i].stage = "quad" /\ frame.pointCloudModeEnabled = 0
        /\ proj[i].cov2Dv[2] # 0
        /\ proj[i].eigenValue2 > 0
        /\ proj[i].eigenValue1 > proj[i].eigenValue2

\* C7: a splat that reaches the eigen-solve with eigenValue2 <= 0 returns
\* before any basis vector or quad position is computed; one with
\* eigenValue2 > 0 (and no antialias discard) goes on to the basis vectors
\* and the quad.
C7_EigenDiscard ==
    \A i \in SplatIds :
        /\ Solved(i) =>
             /\ proj[i].eigenValue2 <= 0 =>
                  /\ proj[i].stage = "eigenDiscard"
                  /\ proj[i].basisVector1 = NoVec /\ proj[i].basisVector2 = NoVec
             /\ proj[i].eigenValue2 > 0 => proj[i].stage = "quad"
        /\ proj[i].stage = "eigenDiscard" => proj[i].eigenValue2 <= 0

C7_Witness ==
    \E i, j \in SplatIds :
        /\ proj[i].stage = "eigenDiscard" /\ proj[i].eigenValue2 = -100
        /\ proj[i].basisVector1 = NoVec /\ proj[i].basisVector2 = NoVec
        /\ proj[j].stage = "quad" /\ proj[j].eigenValue2 > 0
        /\ proj[j].basisVector1 # NoVec /\ proj[j].basisVector2 # NoVec

\* the length splatScale * min(sqrt8 * sqrt(0.2), maxScreenSpaceSplatSize)
PointCloudExtent ==
    FMul(frame.splatScale,
         Min(FMul(sqrt8, FSqrt(PointCloudEigenValue)),
             frame.maxScreenSpaceSplatSize * Scale))

\* C8 as claimed: in point-cloud mode both eigenvalues are 0.2 whatever the
\* covariance, the eigenvalue test never discards, and the two basis
\* vectors are well defined, perpendicular and of the same length
\* splatScale * min(sqrt8 * sqrt(0.2), maxScreenSpaceSplatSize).
C8_Original ==
    \A i \in SplatIds :
        (frame.pointCloudModeEnabled = 1 /\ Solved(i)) =>
            /\ proj[i].eigenValue1 = PointCloudEigenValue
            /\ proj[i].eigenValue2 = PointCloudEigenValue
            /\ proj[i].stage = "quad"
            /\ proj[i].basisFinite
            /\ WSign(WDot(proj[i].basisVector1, proj[i].basisVector2)) = 0
            /\ WDot(proj[i].basisVector1, proj[i].basisVector1)
                 = WDot(proj[i].basisVector2, proj[i].basisVector2)
            /\ LET len2 == PointCloudExtent * PointCloudExtent
                   b2 == proj[i].basisVector1[1] * proj[i].basisVector1[1]
                           + proj[i].basisVector1[2] * proj[i].basisVector1[2]
               IN  Abs(b2 - len2) <= len2 \div 100

\* m = sqrt(max(detOrig / detBlur, 0.0)) to the model's resolution
IsSqrtRatio(m, detOrig, detBlur) ==
    IF WSign(detOrig) * WSign(detBlur) <= 0 THEN m = 0
    ELSE LET num == WMul(WAbs(detOrig), WProd(Scale, Scale))
             den == WAbs(detBlur)
         IN  /\ m >= 0
             /\ WLeq(WMul(WProd(m, m), den), num)
             /\ WLess(num, WMul(WProd(m + 1, m + 1), den))

\* C9: with antialiasing compiled in, the splat's alpha is multiplied by
\* sqrt(max(detOrig / detBlur, 0)), detOrig the determinant of the 2D
\* covariance before the kernel dilation and detBlur the one after it, and
\* the splat is discarded exactly when the resulting alpha is below
\* minAlpha; without antialiasing (and optional effects off) the alpha is
\* unchanged and there is no such discard.
C9_Compensation ==
    \A i \in SplatIds :
        Projected(i) =>
            LET c0 == proj[i].cov2D
                c == proj[i].cov2Dv
                detOrig == Det2(c0[1], c0[2], c0[3])
                detBlur == Det2(c[1], c[2], c[3])
                m == SqrtRatio(detOrig, detBlur)
                alpha == FMul(splats[i].alpha, m)
            IN  /\ c = <<c0[1] + frame.kernel2DSize, c0[2], c0[3] + frame.kernel2DSize>>
                /\ (frame.antialiased /\ WSign(detBlur) # 0) =>
                     /\ IsSqrtRatio(m, detOrig, detBlur)
                     /\ proj[i].stage = "alphaDiscard" <=> alpha < frame.minAlpha
                     /\ (proj[i].stage = "alphaDiscard" \/ ~frame.enableOptionalEffects)
                          => proj[i].alpha = alpha
                /\ ~frame.antialiased =>
                     /\ proj[i].stage # "alphaDiscard"
                     /\ ~frame.enableOptionalEffects => proj[i].alpha = splats[i].alpha

C9_Witness ==
    \E i, j \in SplatIds :
        /\ frame.antialiased /\ ~frame.enableOptionalEffects
        /\ proj[i].stage = "quad" /\ splats[i].alpha = Scale
        /\ proj[i].alpha > 0 /\ proj[i].alpha < Scale
        /\ proj[j].stage = "alphaDiscard" /\ splats[j].alpha = Scale
        /\ proj[j].alpha < frame.minAlpha

\* the model-view's upper 3x3 is a rotation times a uniform scale
Conformal(mv) ==
    LET g == MatMul(mv, transpose(mv))
    IN  /\ g[1][1] = g[2][2] /\ g[2][2] = g[3][3]
        /\ g[1][2] = 0 /\ g[1][3] = 0 /\ g[2][3] = 0

IsotropicCov2D(i) == proj[i].cov2D[1] = proj[i].cov2D[3] /\ proj[i].cov2D[2] = 0

\* C10 (as amended): for a positive semi-definite covariance3D the projected
\* cov2D, before dilation, is symmetric positive semi-definite for every
\* model-view and projection; for an isotropic covariance3D under an
\* orthographic camera whose model-view 3x3 is a rotation times a uniform
\* scale, cov2D is isotropic.
C10_Projection ==
    \A i \in SplatIds :
        (Projected(i) /\ PSD3(splats[i].covariance3D)) =>
            /\ PSD2(proj[i].cov2D)
            /\ (/\ Isotropic3(splats[i].covariance3D)
                /\ frame.orthographicMode = 1
                /\ Conformal(frame.transformModelViewMatrix)) => IsotropicCov2D(i)

C10_Witness ==
    \E i, j \in SplatIds :
        /\ Projected(i) /\ Isotropic3(splats[i].covariance3D)
        /\ splats[i].covariance3D.M11 > 0
        /\ frame.orthographicMode = 1 /\ frame.transformModelViewMatrix = ScaledTurn
        /\ IsotropicCov2D(i) /\ proj[i].cov2D[1] > 0
        /\ Projected(j) /\ PSD3(splats[j].covariance3D)
        /\ proj[j].cov2D[2] # 0 /\ PSD2(proj[j].cov2D)

\* C10 as claimed: cov2D is positive semi-definite for a positive
\* semi-definite covariance3D, and isotropic for an isotropic covariance3D
\* under an orthographic camera.
C10_Original ==
    \A i \in SplatIds :
        (Projected(i) /\ PSD3(splats[i].covariance3D)) =>
            /\ PSD2(proj[i].cov2D)
            /\ (Isotropic3(splats[i].covariance3D) /\ frame.orthographicMode = 1)
                 => IsotropicCov2D(i)

\* the coordinate the claim expects: vPosition moved by +positionOffset.xy or
\* -positionOffset.xy when the position effect is on
Perturbed ==
    LET sign == IF (uniforms.positionTime * 15) % Scale < 5000 THEN 1 ELSE -1
    IN  IF uniforms.positionEffect > 0
        THEN <<frag.vPosition[1] + sign * uniforms.positionOffset[1],
               frag.vPosition[2] + sign * uniforms.positionOffset[2]>>
        ELSE frag.vPosition

PerturbedDistSq == Perturbed[1] * Perturbed[1] + Perturbed[2] * Perturbed[2]

\* C15: with the position effect active the local coordinate is first moved
\* by +positionOffset.xy or -positionOffset.xy (+ when
\* fract(positionTime * frequency) < 0.5, else -), and the discard test and
\* alpha = exp(-0.5 * distSq) * opacity are evaluated on the moved
\* coordinate; with the effect inactive they are evaluated on vPosition,
\* whatever positionOffset and positionTime are.
C15_PositionEffect ==
    Shaded =>
        /\ gl_FragColor.state = "discard" <=> PerturbedDistSq > 800000000
        /\ gl_FragColor.state = "color" =>
             gl_FragColor.a = FMul(exp(-FMul(5000, PerturbedDistSq \div Scale)), frag.vColor.a)
        /\ uniforms.positionEffect = 0 => Perturbed = frag.vPosition

C15_Witness ==
    /\ uniforms.positionEffect = 1 /\ uniforms.positionTime = 500
    /\ uniforms.positionOffset = <<5000, 0, 0>>
    /\ frag.vPosition = <<30000, 0>>
    /\ Perturbed = <<25000, 0>>
    /\ gl_FragColor.state = "color" /\ gl_FragColor.a > 0

ColourEffectsOff ==
    /\ uniforms.rainbowEffect = 0 /\ uniforms.pulseEffect = 0
    /\ uniforms.glowEffect = 0 /\ uniforms.invertEffect = 0

\* C16: the colour effects change neither alpha nor the discard decision:
\* both depend only on the local coordinate, the opacity and the position
\* effect, for all 16 combinations of the rainbow, pulse, glow and invert
\* flags and all values of time and pulseTime; with the four flags off the
\* emitted colour is the base colour.
C16_AlphaIndependent ==
    Shaded =>
        LET off == [uniforms EXCEPT !.rainbowEffect = 0, !.pulseEffect = 0,
                                    !.glowEffect = 0, !.invertEffect = 0,
                                    !.time = 0, !.pulseTime = 0]
            plain == FragmentMain(off, frag)
        IN  /\ gl_FragColor.state = plain.state
            /\ gl_FragColor.a = plain.a
            /\ gl_FragColor.state = "color" =>
                 gl_FragColor.a = FMul(exp(-FMul(5000, DistSq \div Scale)), frag.vColor.a)
            /\ (ColourEffectsOff /\ gl_FragColor.state = "color") =>
                 gl_FragColor.rgb = frag.vColor.rgb

C16_Witness ==
    /\ gl_FragColor.state = "color"
    /\ uniforms.rainbowEffect = 1 /\ uniforms.pulseEffect = 1
    /\ uniforms.glowEffect = 1 /\ uniforms.invertEffect = 1
    /\ uniforms.pulseTime = 10000
    /\ gl_FragColor.rgb # frag.vColor.rgb
    /\ gl_FragColor.a > 0 /\ gl_FragColor.a < frag.vColor.a

\* u and v are perpendicular to within the model's rounding:
\* |cos| <= 0.01
Perpendicular(u, v) ==
    LET d == WDot(u, v)
    IN  WLeq(WMul(WMul(d, d), W(10000)), WMul(WDot(u, u), WDot(v, v)))

\* |v| is len to within one percent
HasLength(v, len) ==
    LET l2 == WProd(len, len)
    IN  WLeq(WMul(WAbs(WSub(WDot(v, v), l2)), W(100)), WMul(l2, W(2)))

\* splatScale * min(sqrt8 * sqrt(eigenValue), maxScreenSpaceSplatSize)
ClaimedExtent(eigenValue) ==
    FMul(frame.splatScale,
         Min(FMul(sqrt8, FSqrt(eigenValue)), frame.maxScreenSpaceSplatSize * Scale))

\* C14 as claimed: every splat the projector does not discard, point-cloud
\* mode off, has well-defined nonzero perpendicular basis vectors of lengths
\* splatScale * min(sqrt8 * sqrt(eigenValue), maxScreenSpaceSplatSize), so
\* neither is longer than splatScale * maxScreenSpaceSplatSize.
C14_Original ==
    \A i \in SplatIds :
        (proj[i].stage = "quad" /\ frame.pointCloudModeEnabled = 0) =>
            /\ proj[i].basisFinite
            /\ proj[i].basisVector1 # NoVec /\ proj[i].basisVector2 # NoVec
            /\ Perpendicular(proj[i].basisVector1, proj[i].basisVector2)
            /\ HasLength(proj[i].basisVector1, ClaimedExtent(proj[i].eigenValue1))
            /\ HasLength(proj[i].basisVector2, ClaimedExtent(proj[i].eigenValue2))

---------------------------------------------------------------------------
(* Properties of the effect controller (SpecController).                   *)

\* C11: once the rainbow (pulse) effect is disabled and stays disabled, no
\* step advances time (pulseTime): an animation frame that finds the flag 0
\* leaves no update loop of the effect pending, and none comes back.
C11_Local ==
    /\ (uniforms.rainbowEffect = 0 /\ uniforms'.rainbowEffect = 0) =>
          /\ uniforms'.time = uniforms.time
          /\ (frames' # frames \/ loops.rainbow = 0) => loops'.rainbow = 0
    /\ (uniforms.pulseEffect = 0 /\ uniforms'.pulseEffect = 0) =>
          /\ uniforms'.pulseTime = uniforms.pulseTime
          /\ (frames' # frames \/ loops.pulse = 0) => loops'.pulse = 0

C11_DisabledStops == [][C11_Local]_vars

\* The rainbow effect was enabled and disabled with no frame in between, and
\* two frames later time still has the value it was disabled with.
C11_Witness ==
    /\ uniforms.rainbowEffect = 0 /\ uniforms.time = TimeIncrement
    /\ loops.rainbow = 0 /\ frames >= 2

TimeParameters(u) == <<u.time, u.pulseTime, u.positionTime>>

\* C17: a call that enables the rainbow (pulse) effect restarts time
\* (pulseTime) from 0, whatever it was: the call leaves it one increment
\* after 0, the advance of the run of the update closure inside the call.
\* A call that disables the rainbow or the pulse effect, or that enables or
\* disables glow or invert, leaves time, pulseTime and positionTime as they
\* were.
C17_Local ==
    /\ Call("rainbow", TRUE) =>
          /\ uniforms'.time = TimeIncrement
          /\ uniforms'.pulseTime = uniforms.pulseTime
          /\ uniforms'.positionTime = uniforms.positionTime
    /\ Call("pulse", TRUE) =>
          /\ uniforms'.pulseTime = PulseIncrement
          /\ uniforms'.time = uniforms.time
          /\ uniforms'.positionTime = uniforms.positionTime
    /\ (Call("rainbow", FALSE) \/ Call("pulse", FALSE)) =>
          TimeParameters(uniforms') = TimeParameters(uniforms)
    /\ \A active \in BOOLEAN :
          (Call("glow", active) \/ Call("invert", active)) =>
              TimeParameters(uniforms') = TimeParameters(uniforms)

C17_PhaseReset == [][C17_Local]_vars

\* The rainbow effect has been enabled twice, an animation frame has run,
\* and time is one increment after 0.
C17_Witness ==
    /\ uniforms.rainbowEffect = 1 /\ loops.rainbow = 2
    /\ uniforms.time = TimeIncrement
    /\ frames >= 1

\* C18: while the rainbow (pulse) effect is enabled, an animation frame
\* advances time (pulseTime) by exactly one increment, and at most one
\* update loop per effect is pending at any time.
C18_Local ==
    /\ (AnimationFrame /\ uniforms.rainbowEffect = 1) =>
          uniforms'.time = uniforms.time + TimeIncrement
    /\ (AnimationFrame /\ uniforms.pulseEffect = 1) =>
          uniforms'.pulseTime = uniforms.pulseTime + PulseIncrement

C18_Original ==
    /\ [](loops.rainbow <= 1 /\ loops.pulse <= 1)
    /\ [][C18_Local]_vars

---------------------------------------------------------------------------
(* Properties of the viewer with its InfoPanel (Spec).                     *)

C13_Startup ==
    calls = 0 =>
        /\ \A e \in Effects : EffectFlag(uniforms, e) = 0 /\ ~buttons[e]
        /\ TimeParameters(uniforms) = <<0, 0, 0>>
        /\ uniforms.positionOffset = <<0, 0, 0>>
        /\ gl_FragColor.state = "color" => gl_FragColor.rgb = frag.vColor.rgb

\* A pixel has been shaded after an animation frame, before any interaction.
C13_Witness ==
    /\ calls = 0 /\ frames >= 1
    /\ gl_FragColor.state = "color"
    /\ gl_FragColor.rgb = <<2000, 4000, 6000>>

Alternates(seq) == \A k \in 1..Len(seq) : seq[k] = (k % 2 = 1)

\* C19: after any sequence of clicks, the flag of each of the five effects is
\* 1 exactly when its button is active, and the events of one effect
\* alternate active = true, false, true, ... starting with true.
C19_Original ==
    \A e \in Effects :
        /\ EffectFlag(uniforms, e) = 1 <=> buttons[e]
        /\ Alternates(events[e])

---------------------------------------------------------------------------
(* Properties of the LoadingSpinner (SpecSpinner).                         *)

LastTask(sp) == sp.tasks[Len(sp.tasks)]

\* C20: after at least one call of addTask, removeTask, removeAllTasks or
\* setMessageForTask the spinner is shown (visible = true, display 'block')
\* exactly when the task list is not empty, and is hidden otherwise; when
\* shown, both message containers hold the message of the last task, which
\* is the task added most recently among those in the list.
C20_Rule ==
    spinner.ops >= 1 =>
        /\ spinner.tasks # <<>> =>
              /\ spinner.visible = TRUE /\ spinner.display = "block"
              /\ spinner.messageContainerPrimary = LastTask(spinner).message
              /\ spinner.messageContainerMin = LastTask(spinner).message
              /\ \A k \in 1..Len(spinner.tasks) :
                    spinner.tasks[k].id <= LastTask(spinner).id
        /\ spinner.tasks = <<>> =>
              spinner.visible = FALSE /\ spinner.display = "none"

\* C20: setting the message of a task that is not the last one leaves the
\* displayed message as it was.
C20_Local ==
    \A id \in TaskIds, message \in Messages :
        (/\ SetMessageForTask(id, message)
         /\ spinner.tasks # <<>>
         /\ id # LastTask(spinner).id) =>
            /\ spinner'.messageContainerPrimary = spinner.messageContainerPrimary
            /\ spinner'.messageContainerMin = spinner.messageContainerMin

C20_Displayed == []C20_Rule /\ [][C20_Local]_vars

\* Three tasks were added and the second one removed; the spinner shows the
\* message of the third, which differs from the message of the first.
C20_Witness ==
    /\ spinner.taskIDGen = 3 /\ Len(spinner.tasks) = 2
    /\ spinner.tasks[1].id = 0 /\ spinner.tasks[2].id = 2
    /\ spinner.tasks[1].message = "Processing"
    /\ spinner.tasks[2].message = "Downloading"
    /\ spinner.visible = TRUE
    /\ spinner.messageContainerPrimary = "Downloading"

TaskIdsOf(tasks) == {tasks[k].id : k \in 1..Len(tasks)}

\* The tasks without those of the given id, in their order.
Without(tasks, id) ==
    LET Other(t) == t.id # id
    IN  SelectSeq(tasks, Other)

\* C21: the ids addTask has returned are pairwise distinct, and the tasks of
\* the list carry pairwise distinct ids among those returned.
C21_Rule ==
    /\ \A j, k \in 1..Len(spinner.returned) :
          spinner.returned[j] = spinner.returned[k] => j = k
    /\ \A j, k \in 1..Len(spinner.tasks) :
          spinner.tasks[j].id = spinner.tasks[k].id => j = k
    /\ \A k \in 1..Len(spinner.tasks) :
          \E j \in 1..Len(spinner.returned) : spinner.returned[j] = spinner.tasks[k].id

\* C21: addTask appends a task whose id is the one it returns; removeTask(id)
\* with an id of the list removes that one task and keeps the others in
\* their order, and with any other id leaves the list as it was.
C21_Local ==
    /\ \A message \in Messages :
          AddTask(message) =>
              /\ Len(spinner'.returned) = Len(spinner.returned) + 1
              /\ spinner'.tasks =
                    Append(spinner.tasks,
                           [message |-> message,
                            id |-> spinner'.returned[Len(spinner'.returned)]])
    /\ \A id \in TaskIds :
          RemoveTask(id) =>
              /\ spinner'.tasks = Without(spinner.tasks, id)
              /\ id \in TaskIdsOf(spinner.tasks) =>
                    Len(spinner'.tasks) = Len(spinner.tasks) - 1
              /\ id \notin TaskIdsOf(spinner.tasks) => spinner'.tasks = spinner.tasks
              /\ spinner'.returned = spinner.returned

C21_TaskIds == []C21_Rule /\ [][C21_Local]_vars

\* Two tasks were added, all tasks removed, and a third task added: it has
\* an id that neither of the first two had.
C21_Witness ==
    /\ spinner.returned = <<0, 1, 2>>
    /\ Len(spinner.tasks) = 1 /\ spinner.tasks[1].id = 2
    /\ spinner.ops = 4

=============================================================================
